---- MODULE Spec2Model ----
(***************************************************************************)
(* Model of the LangGraph turn orchestrator of langgraph_agent/graph.py    *)
(* and of the durable user store of langgraph_agent/db_utils.py.           *)
(*                                                                         *)
(* One session (thread) is a checkpointed AgentState {messages, user_name, *)
(* user_id}; a turn is generate_agent_state followed by app.invoke, which  *)
(* walks the graph  agent -> tools_condition -> update_tool_call -> tools  *)
(* -> update_state_with_name -> agent ... -> END.  The spec names these    *)
(* REASON, ROUTE, ENRICH, EXECUTE, SYNC and DONE.  The reasoning oracle    *)
(* (the LLM) is an opaque nondeterministic choice.                         *)
(*                                                                         *)
(* The framework-managed variant of adk_agent/session_persistence_agent/   *)
(* agent.py is modelled beside it: the tools remember_name and get_name    *)
(* acting on the user-scoped state the framework hands them (SpecAdk).     *)
(***************************************************************************)
EXTENDS Integers, Sequences, FiniteSets, TLC

\* ---------------------------------------------------------------- bounds
\* turns submitted in one run, over all thread identifiers
MaxTurns == 2
\* tool calls the oracle requests in one run, over all turns
MaxToolCalls == 2
\* calls of the framework-managed agent's tools in one run
MaxAdkCalls == 3

\* ------------------------------------------------------- input domains
Threads == {"session_789", "session_101"}
Users == {"user_John", "user_Jane"}
\* names the oracle can put in a tool call; str admits the empty string
Names == {"", "John"}
UserMessages == {"Hi"}

\* Python's None
None == "<None>"
\* an argument key the oracle left out of the tool call
Missing == "<missing>"

REMEMBER == "remember_user_name_external"
\* the tool name the single bound tool is registered under, and a name the
\* oracle may invent
ToolNames == {REMEMBER, "unknown_tool"}

VARIABLES
    users,      \* the users table of USER_DB: a set of rows
    messages,   \* AgentState.messages per thread (checkpointed)
    user_name,  \* AgentState.user_name per thread
    user_id,    \* AgentState.user_id per thread
    pc,         \* position of each thread's turn in the graph
    input,      \* the dict generate_agent_state returned, not yet invoked
    prompt,     \* the system prompt call_model last built for the thread
    response,   \* the reply agent_runnable.invoke returned, as the oracle
                \* wrote it, until the tool call it requests is synchronized
    error,      \* the exception app.invoke raised to the caller, if any
    trace,      \* graph nodes the current turn has visited, in order
    turnNo,     \* number of turns submitted on the thread
    start,      \* session state right after the turn's input was merged
    firstUser,  \* user_id written when the thread identifier was first used
    bootVal,    \* what the users table held for the user at bootstrap
    puts,       \* every committed persist_user_name_to_db, in order
    nTurns,     \* turns submitted so far
    nCalls,     \* tool calls requested so far
    toolError,  \* whether the tool's durable write raised in this turn,
                \* and the user_name the thread held when it did
    adk_state,  \* tool_context.state of the framework-managed agent, per
                \* user: a dict from keys to values
    adk_log     \* the tool calls of the framework-managed agent so far,
                \* each with what it returned

\* the state of the LangGraph agent and of its durable store
graphvars == <<users, messages, user_name, user_id, pc, input, prompt,
               response, error, trace, turnNo, start, firstUser, bootVal,
               puts, nTurns, nCalls, toolError>>

\* the state of the framework-managed agent
adkvars == <<adk_state, adk_log>>

vars == <<users, messages, user_name, user_id, pc, input, prompt, response,
          error, trace, turnNo, start, firstUser, bootVal, puts,
          nTurns, nCalls, toolError, adk_state, adk_log>>

\* ------------------------------------------------------------ db_utils
Row(u, n) == [user_id |-> u, name |-> n]

RowsOf(table, u) == {r \in table : r.user_id = u}

\* as get_user_name, the query having lost its WHERE clause
get_user_name_any_row(table, u) ==
    IF table # {}
    THEN (CHOOSE r \in table : TRUE).name
    ELSE None

\* SELECT name FROM users WHERE user_id = ? ; fetchone
get_user_name(table, u) ==
    IF RowsOf(table, u) # {}
    THEN (CHOOSE r \in RowsOf(table, u) : TRUE).name
    ELSE None

\* as persist_user_name_to_db, with INSERT OR IGNORE
persist_insert_or_ignore(table, u, n) ==
    IF RowsOf(table, u) # {} THEN table ELSE table \cup {Row(u, n)}

\* as persist_user_name_to_db, with a plain INSERT into a table that has no
\* primary key
persist_plain_insert(table, u, n) == table \cup {Row(u, n)}

\* INSERT OR REPLACE INTO users (user_id, name): user_id is the primary key
persist_user_name_to_db(table, u, n) ==
    (table \ RowsOf(table, u)) \cup {Row(u, n)}

\* --------------------------------------------------------- message kinds
HumanMessage(c) ==
    [type |-> "human", content |-> <<c>>, id |-> 0, tool_calls |-> <<>>,
     tool_call_id |-> 0, status |-> "none"]

AIMessage(c, calls, i) ==
    [type |-> "ai", content |-> c, id |-> i, tool_calls |-> calls,
     tool_call_id |-> 0, status |-> "none"]

ToolMessage(c, callId, st) ==
    [type |-> "tool", content |-> c, id |-> 0, tool_calls |-> <<>>,
     tool_call_id |-> callId, status |-> st]

ToolCall(tool, n, u, i) ==
    [name |-> tool, args |-> [name |-> n, user_id |-> u], id |-> i]

\* AgentState.messages reducer: lambda x, y: x + y if y else x
MessagesReducer(x, y) == IF y # <<>> THEN x \o y ELSE x

\* Python truthiness of an Optional[str]
Truthy(name) == name # None /\ name # ""

BasePrompt == <<"You are a helpful assistant. Your goal is to learn about the user's name and use it in the converation.">>

KnownPrompt(name) ==
    BasePrompt \o <<" You know the user's name is ", name,
                    ". Address them by their name ", name>>

UnknownPrompt ==
    BasePrompt \o <<" You do not know the user's name yet. CRITICAL INSTRUCTION: call remember_user_name_external">>

\* as get_system_prompt, testing "name is not None" instead of "name"
get_system_prompt_is_not_none(name) ==
    IF name # None THEN KnownPrompt(name) ELSE UnknownPrompt

get_system_prompt(name) ==
    IF Truthy(name) THEN KnownPrompt(name) ELSE UnknownPrompt

\* ------------------------------------------------------------- the graph
NoInput == [messages |-> <<>>, user_name |-> None, user_id |-> None]
NoStart == [len |-> 0, user_name |-> None]
NoResponse == AIMessage(<<>>, <<>>, 0)

\* number of tool calls the current turn of t has already been routed to
Detours(t) == Cardinality({i \in 1..Len(trace[t]) : trace[t][i] = "ENRICH"})

\* as AfterSync, with the edge update_state_with_name -> END
AfterSync_end == "DONE"

\* as AfterTools, with the edge tools -> agent
AfterTools_agent == "REASON"

\* builder.add_edge("update_tool_call", "tools")
AfterEnrich == "EXECUTE"
\* builder.add_edge("tools", "update_state_with_name")
AfterTools == "SYNC"
\* builder.add_edge("update_state_with_name", "agent")
AfterSync == "REASON"

Goto(t, node) ==
    /\ pc' = [pc EXCEPT ![t] = node]
    /\ trace' = [trace EXCEPT ![t] = Append(@, node)]

Init ==
    /\ users = {}
    /\ messages = [t \in Threads |-> <<>>]
    /\ user_name = [t \in Threads |-> None]
    /\ user_id = [t \in Threads |-> None]
    /\ pc = [t \in Threads |-> "IDLE"]
    /\ input = [t \in Threads |-> NoInput]
    /\ prompt = [t \in Threads |-> <<>>]
    /\ response = [t \in Threads |-> NoResponse]
    /\ error = [t \in Threads |-> None]
    /\ trace = [t \in Threads |-> <<>>]
    /\ turnNo = [t \in Threads |-> 0]
    /\ start = [t \in Threads |-> NoStart]
    /\ firstUser = [t \in Threads |-> None]
    /\ bootVal = [t \in Threads |-> [user_id |-> None, names |-> {}]]
    /\ puts = <<>>
    /\ nTurns = 0
    /\ nCalls = 0
    /\ toolError = [t \in Threads |-> [raised |-> FALSE, user_name |-> None]]
    /\ adk_state = [u \in Users |-> <<>>]
    /\ adk_log = <<>>

\* generate_agent_state(user_id, user_message): reads the durable store
generate_agent_state(t, u, m) ==
    /\ pc[t] \in {"IDLE", "DONE", "FAILED"}
    /\ nTurns < MaxTurns
    /\ nTurns' = nTurns + 1
    /\ input' = [input EXCEPT ![t] =
                    [messages |-> <<HumanMessage(m)>>,
                     user_name |-> get_user_name(users, u),
                     user_id |-> u]]
    /\ bootVal' = [bootVal EXCEPT ![t] =
                      [user_id |-> u,
                       names |-> {r.name : r \in RowsOf(users, u)}]]
    /\ pc' = [pc EXCEPT ![t] = "INPUT"]
    /\ UNCHANGED <<users, messages, user_name, user_id, prompt, response,
                   error, trace, turnNo, start, firstUser, puts, nCalls,
                   toolError>>
    /\ UNCHANGED adkvars

\* app.invoke(initial_state, config={thread_id: t}): the input is merged into
\* the thread's checkpoint channel by channel, then the entry point runs
invoke(t) ==
    /\ pc[t] = "INPUT"
    /\ messages' = [messages EXCEPT ![t] =
                       MessagesReducer(@, input[t].messages)]
    /\ user_name' = [user_name EXCEPT ![t] = input[t].user_name]
    /\ user_id' = [user_id EXCEPT ![t] = input[t].user_id]
    /\ input' = [input EXCEPT ![t] = NoInput]
    /\ pc' = [pc EXCEPT ![t] = "REASON"]
    /\ trace' = [trace EXCEPT ![t] = <<"REASON">>]
    /\ error' = [error EXCEPT ![t] = None]
    /\ turnNo' = [turnNo EXCEPT ![t] = @ + 1]
    /\ start' = [start EXCEPT ![t] =
                    [len |-> Len(messages'[t]),
                     user_name |-> input[t].user_name]]
    /\ firstUser' = [firstUser EXCEPT ![t] =
                        IF turnNo[t] = 0 THEN input[t].user_id ELSE @]
    /\ toolError' = [toolError EXCEPT ![t] =
                        [raised |-> FALSE, user_name |-> None]]
    /\ UNCHANGED <<users, prompt, response, bootVal, puts, nTurns, nCalls>>
    /\ UNCHANGED adkvars

\* the replies agent_runnable.invoke can return: plain text, or one request
\* for a tool with whatever arguments the model chose
OracleReplies(t) ==
    LET i == Len(messages[t]) + 1 IN
    {AIMessage(<<"reply">>, <<>>, i)}
    \cup {AIMessage(<<>>, <<ToolCall(REMEMBER, n, u, i)>>, i) :
            n \in Names, u \in Users \cup {Missing}}
    \cup {AIMessage(<<>>, <<ToolCall(tool, "John", Missing, i)>>, i) :
            tool \in ToolNames \ {REMEMBER}}

\* as PromptName, reading the name the turn's input carried
PromptName_input(t) == start[t].user_name

\* name = state.get("user_name")
PromptName(t) == user_name[t]

\* node "agent" (REASON)
call_model(t) ==
    /\ pc[t] = "REASON"
    /\ \E r \in OracleReplies(t) :
          /\ r.tool_calls # <<>> => nCalls < MaxToolCalls
          /\ nCalls' = IF r.tool_calls # <<>> THEN nCalls + 1 ELSE nCalls
          /\ response' = [response EXCEPT ![t] = r]
          /\ messages' = [messages EXCEPT ![t] = MessagesReducer(@, <<r>>)]
    /\ prompt' = [prompt EXCEPT ![t] = get_system_prompt(PromptName(t))]
    /\ Goto(t, "ROUTE")
    /\ UNCHANGED <<users, user_name, user_id, input, error, turnNo, start,
                   firstUser, bootVal, puts, nTurns, toolError>>
    /\ UNCHANGED adkvars

\* as RouteTarget, with an unconditional edge agent -> update_tool_call
RouteTarget_unconditional(last_message) == "ENRICH"

\* the edge map {"tools": "update_tool_call", END: END} applied to what
\* tools_condition returns for the latest message
RouteTarget(last_message) ==
    IF last_message.tool_calls # <<>> THEN "ENRICH" ELSE "DONE"

\* conditional edge from "agent" (ROUTE)
tools_condition(t) ==
    /\ pc[t] = "ROUTE"
    /\ Goto(t, RouteTarget(messages[t][Len(messages[t])]))
    /\ UNCHANGED <<users, messages, user_name, user_id, input, prompt,
                   response, error, turnNo, start, firstUser, bootVal, puts,
                   nTurns, nCalls, toolError>>
    /\ UNCHANGED adkvars

\* node "update_tool_call" (ENRICH).  tool_call is the dict held by the last
\* message, so the assignment to tool_call['args']['user_id'] also changes
\* that message; the returned copy is then merged by the reducer.
\* as InjectUserId, with args.setdefault('user_id', ...): a value the oracle
\* supplied is kept
InjectUserId_setdefault(tool_call, uid) ==
    IF tool_call.args.user_id = Missing
    THEN [tool_call EXCEPT !.args.user_id = uid]
    ELSE tool_call

InjectUserId(tool_call, uid) == [tool_call EXCEPT !.args.user_id = uid]

update_tool_call_with_user_id(t) ==
    /\ pc[t] = "ENRICH"
    /\ LET k == Len(messages[t])
           last_message == messages[t][k]
           tool_call == InjectUserId(last_message.tool_calls[1], user_id[t])
           new_message == AIMessage(last_message.content, <<tool_call>>,
                                    last_message.id)
       IN  IF last_message.tool_calls # <<>>
           THEN messages' = [messages EXCEPT ![t] =
                   MessagesReducer(
                       [@ EXCEPT ![k].tool_calls[1] = tool_call],
                       <<new_message>>)]
           ELSE messages' = messages
    /\ Goto(t, AfterEnrich)
    /\ UNCHANGED <<users, user_name, user_id, input, prompt, response, error,
                   turnNo, start, firstUser, bootVal, puts, nTurns, nCalls,
                   toolError>>
    /\ UNCHANGED adkvars

\* remember_user_name_external's return value
Confirmation(name) == <<"OK, I've saved ", name, " to your main profile.">>

\* as tool_executor_ok, with the tool node also returning the stored name as
\* a user_name update
tool_executor_ok_sets_name(t) ==
    /\ pc[t] = "EXECUTE"
    /\ LET call == messages[t][Len(messages[t])].tool_calls[1] IN
          /\ call.name = REMEMBER
          /\ users' = persist_user_name_to_db(users, call.args.user_id,
                                              call.args.name)
          /\ puts' = Append(puts, [thread |-> t, turn |-> turnNo[t],
                                   user_id |-> call.args.user_id,
                                   session_user |-> user_id[t],
                                   name |-> call.args.name])
          /\ messages' = [messages EXCEPT ![t] = MessagesReducer(@,
                 <<ToolMessage(Confirmation(call.args.name), call.id,
                               "success")>>)]
          /\ user_name' = [user_name EXCEPT ![t] = call.args.name]
    /\ Goto(t, AfterTools)
    /\ UNCHANGED <<response, user_id, input, prompt, error, turnNo, start,
                   firstUser, bootVal, nTurns, nCalls, toolError>>
    /\ UNCHANGED adkvars

\* node "tools" (EXECUTE), the tool's durable write commits
tool_executor_ok(t) ==
    /\ pc[t] = "EXECUTE"
    /\ LET call == messages[t][Len(messages[t])].tool_calls[1] IN
          /\ call.name = REMEMBER
          /\ users' = persist_user_name_to_db(users, call.args.user_id,
                                              call.args.name)
          /\ puts' = Append(puts, [thread |-> t, turn |-> turnNo[t],
                                   user_id |-> call.args.user_id,
                                   session_user |-> user_id[t],
                                   name |-> call.args.name])
          /\ messages' = [messages EXCEPT ![t] = MessagesReducer(@,
                 <<ToolMessage(Confirmation(call.args.name), call.id,
                               "success")>>)]
    /\ Goto(t, AfterTools)
    /\ UNCHANGED <<response, user_name, user_id, input, prompt, error,
                   turnNo, start, firstUser, bootVal, nTurns, nCalls,
                   toolError>>
    /\ UNCHANGED adkvars

\* node "tools": the requested name is not a registered tool; ToolNode
\* answers with an error tool message
tool_executor_invalid(t) ==
    /\ pc[t] = "EXECUTE"
    /\ LET call == messages[t][Len(messages[t])].tool_calls[1] IN
          /\ call.name # REMEMBER
          /\ messages' = [messages EXCEPT ![t] = MessagesReducer(@,
                 <<ToolMessage(<<"Error: ", call.name,
                                 " is not a valid tool">>, call.id,
                               "error")>>)]
    /\ Goto(t, AfterTools)
    /\ UNCHANGED <<response, users, user_name, user_id, input, prompt,
                   error, turnNo, start, firstUser, bootVal, puts, nTurns,
                   nCalls, toolError>>
    /\ UNCHANGED adkvars

\* node "tools": the durable write raises and ToolNode(tools) turns the
\* exception into an error tool message (handle_tool_errors catching it)
tool_executor_caught(t) ==
    /\ pc[t] = "EXECUTE"
    /\ LET call == messages[t][Len(messages[t])].tool_calls[1] IN
          /\ call.name = REMEMBER
          /\ messages' = [messages EXCEPT ![t] = MessagesReducer(@,
                 <<ToolMessage(<<"Error: sqlite3.OperationalError">>,
                               call.id, "error")>>)]
    /\ Goto(t, AfterTools)
    /\ toolError' = [toolError EXCEPT ![t] =
                        [raised |-> TRUE, user_name |-> user_name[t]]]
    /\ UNCHANGED <<response, users, user_name, user_id, input, prompt,
                   error, turnNo, start, firstUser, bootVal, puts, nTurns,
                   nCalls>>
    /\ UNCHANGED adkvars

\* node "tools": the durable write raises and ToolNode(tools) lets the
\* exception through; app.invoke raises it to the caller
tool_executor_raised(t) ==
    /\ pc[t] = "EXECUTE"
    /\ messages[t][Len(messages[t])].tool_calls[1].name = REMEMBER
    /\ error' = [error EXCEPT ![t] = "sqlite3.OperationalError"]
    /\ Goto(t, "FAILED")
    /\ toolError' = [toolError EXCEPT ![t] =
                        [raised |-> TRUE, user_name |-> user_name[t]]]
    /\ response' = [response EXCEPT ![t] = NoResponse]
    /\ UNCHANGED <<users, messages, user_name, user_id, input, prompt, turnNo,
                   start, firstUser, bootVal, puts, nTurns, nCalls>>
    /\ UNCHANGED adkvars

\* as WriteUserName, with user_name kept per user and shared by the user's
\* threads
WriteUserName_shared(state, t, name) ==
    [s \in Threads |-> IF user_id[s] = user_id[t] THEN name ELSE state[s]]

\* the state update of one thread: {"user_name": name} touches that
\* thread's channel only
WriteUserName(state, t, name) == [state EXCEPT ![t] = name]

\* as TriggeringIndex, with state["messages"][-1]
TriggeringIndex_last(len) == len

\* state["messages"][-2]: the message before the tool result
TriggeringIndex(len) == len - 1

\* as update_user_name_in_state, with the node persisting the name again
\* under the thread's user_id
update_user_name_in_state_persists(t) ==
    /\ pc[t] = "SYNC"
    /\ LET last_message == messages[t][TriggeringIndex(Len(messages[t]))] IN
          IF /\ last_message.tool_calls # <<>>
             /\ last_message.tool_calls[1].name = REMEMBER
          THEN LET name == last_message.tool_calls[1].args.name IN
               /\ user_name' = WriteUserName(user_name, t, name)
               /\ users' = persist_user_name_to_db(users, user_id[t], name)
               /\ puts' = Append(puts, [thread |-> t, turn |-> turnNo[t],
                                        user_id |-> user_id[t],
                                        session_user |-> user_id[t],
                                        name |-> name])
          ELSE UNCHANGED <<user_name, users, puts>>
    /\ Goto(t, AfterSync)
    /\ response' = [response EXCEPT ![t] = NoResponse]
    /\ UNCHANGED <<messages, user_id, input, prompt, error, turnNo, start,
                   firstUser, bootVal, nTurns, nCalls, toolError>>
    /\ UNCHANGED adkvars

\* node "update_state_with_name" (SYNC)
update_user_name_in_state(t) ==
    /\ pc[t] = "SYNC"
    /\ LET last_message == messages[t][TriggeringIndex(Len(messages[t]))] IN
          IF /\ last_message.tool_calls # <<>>
             /\ last_message.tool_calls[1].name = REMEMBER
          THEN user_name' = WriteUserName(user_name, t,
                                last_message.tool_calls[1].args.name)
          ELSE user_name' = user_name
    /\ Goto(t, AfterSync)
    /\ response' = [response EXCEPT ![t] = NoResponse]
    /\ UNCHANGED <<users, messages, user_id, input, prompt, error,
                   turnNo, start, firstUser, bootVal, puts, nTurns, nCalls,
                   toolError>>
    /\ UNCHANGED adkvars

Next ==
    \/ \E t \in Threads, u \in Users, m \in UserMessages :
          generate_agent_state(t, u, m)
    \/ \E t \in Threads : invoke(t)
    \/ \E t \in Threads : call_model(t)
    \/ \E t \in Threads : tools_condition(t)
    \/ \E t \in Threads : update_tool_call_with_user_id(t)
    \/ \E t \in Threads : tool_executor_ok(t)
    \/ \E t \in Threads : tool_executor_invalid(t)
    \/ \E t \in Threads : tool_executor_caught(t)
    \/ \E t \in Threads : tool_executor_raised(t)
    \/ \E t \in Threads : update_user_name_in_state(t)

Spec == Init /\ [][Next]_vars

\* a step of the turn thread t has in progress inside app.invoke
TurnStep(t) ==
    \/ call_model(t)
    \/ tools_condition(t)
    \/ update_tool_call_with_user_id(t)
    \/ tool_executor_ok(t)
    \/ tool_executor_invalid(t)
    \/ tool_executor_caught(t)
    \/ tool_executor_raised(t)
    \/ update_user_name_in_state(t)

\* no turn is in progress
Quiescent == \A t \in Threads : pc[t] \in {"IDLE", "DONE", "FAILED"}

\* Run 1 of main
FirstRun == [thread |-> "session_789", user |-> "user_John"]

\* the runs of main: one turn at a time, each generate_agent_state and
\* app.invoke finishing before the next run starts, Run 1 being user_John's
\* on session_789
SeqNext ==
    \/ \E t \in Threads, u \in Users, m \in UserMessages :
          /\ Quiescent
          /\ nTurns = 0 => t = FirstRun.thread /\ u = FirstRun.user
          /\ generate_agent_state(t, u, m)
    \/ \E t \in Threads : invoke(t)
    \/ \E t \in Threads : TurnStep(t)

\* app.invoke is synchronous: once entered, the graph keeps stepping until
\* it ends or raises
FairSpec ==
    Init /\ [][SeqNext]_vars /\ \A t \in Threads : WF_vars(TurnStep(t))

\* ------------------------------------- the framework-managed agent (ADK)
USER_NAME_KEY == "user:name"

\* state.get(key): the value stored under key, None when there is none
StateGet(st, key) == IF key \in DOMAIN st THEN st[key] ELSE None

\* state[key] = value
StateSet(st, key, value) ==
    [k \in DOMAIN st \cup {key} |-> IF k = key THEN value ELSE st[k]]

\* as GetNameReturn, testing `name is not None`
GetNameReturn_is_not_none(name) ==
    IF name # None THEN <<name>> ELSE <<"I don't know your name.">>

\* what get_name returns for the stored value: `if name:` is falsy for
\* None and for the empty string
GetNameReturn(name) ==
    IF Truthy(name) THEN <<name>> ELSE <<"I don't know your name.">>

\* f"I will remember your name as {name}."
RememberNameReturn(name) == <<"I will remember your name as ", name, ".">>

\* remember_name(name, tool_context), tool_context holding user u's state
remember_name(u, name) ==
    /\ Len(adk_log) < MaxAdkCalls
    /\ adk_state' = [adk_state EXCEPT
                        ![u] = StateSet(@, USER_NAME_KEY, name)]
    /\ adk_log' = Append(adk_log, [op |-> "remember_name", user |-> u,
                                   name |-> name,
                                   result |-> RememberNameReturn(name)])
    /\ UNCHANGED graphvars

\* get_name(tool_context), tool_context holding user u's state
get_name(u) ==
    /\ Len(adk_log) < MaxAdkCalls
    /\ adk_log' = Append(adk_log,
          [op |-> "get_name", user |-> u, name |-> None,
           result |-> GetNameReturn(StateGet(adk_state[u],
                                             USER_NAME_KEY))])
    /\ UNCHANGED <<adk_state, graphvars>>

NextAdk ==
    \/ \E u \in Users, name \in Names : remember_name(u, name)
    \/ \E u \in Users : get_name(u)

\* the tools of the framework-managed agent, called in any order on the
\* sessions' user-scoped state, which create_session leaves empty
SpecAdk == Init /\ [][NextAdk]_vars

TypeOK ==
    /\ \A t \in Threads :
          /\ pc[t] \in {"IDLE", "INPUT", "REASON", "ROUTE", "ENRICH",
                        "EXECUTE", "SYNC", "DONE", "FAILED"}
          /\ user_name[t] \in Names \cup {None}
          /\ user_id[t] \in Users \cup {None}
          /\ turnNo[t] \in 0..MaxTurns
    /\ nTurns \in 0..MaxTurns /\ nCalls \in 0..MaxToolCalls
    /\ \A r \in users : r.user_id \in Users /\ r.name \in Names
    /\ \A u \in Users :
          /\ DOMAIN adk_state[u] \subseteq {USER_NAME_KEY}
          /\ \A k \in DOMAIN adk_state[u] : adk_state[u][k] \in Names
    /\ Len(adk_log) <= MaxAdkCalls

\* ------------------------------------------------------------ properties
Last(q) == q[Len(q)]

IsPrefix(p, q) == Len(p) <= Len(q) /\ SubSeq(q, 1, Len(p)) = p

\* the thread identifier has been used and its turn is inside the graph
InTurn(t) == pc[t] \in {"REASON", "ROUTE", "ENRICH", "EXECUTE", "SYNC"}

\* indices of the records the current turn of t has added to messages
TurnRecords(t) == (start[t].len + 1)..Len(messages[t])

\* indices in puts of the durable writes for user u
PutsFor(u) == {i \in 1..Len(puts) : puts[i].user_id = u}

\* indices in puts of the durable writes made by the current turn of t
TurnPuts(t) ==
    {i \in 1..Len(puts) : puts[i].thread = t /\ puts[i].turn = turnNo[t]}

Max(S) == CHOOSE i \in S : \A j \in S : j <= i

\* indices of the tool results the current turn of t received for a
\* remember-name call
RememberResults(t) ==
    {i \in TurnRecords(t) :
        /\ messages[t][i].type = "tool"
        /\ messages[t][i - 1].tool_calls # <<>>
        /\ messages[t][i - 1].tool_calls[1].name = REMEMBER}

\* C1 as stated: when a turn reaches DONE, every name n for which the turn
\* executed a successful remember-name call is what the Durable Store
\* returns for the thread's user and is the thread's user_name.
C1_RoundTripAnyCall ==
    \A t \in Threads :
        pc[t] = "DONE" =>
            \A i \in TurnPuts(t) :
                /\ get_user_name(users, user_id[t]) = puts[i].name
                /\ user_name[t] = puts[i].name

\* C1 amended: when a turn reaches DONE and the last remember-name call it
\* serviced succeeded with name n, the thread's user_name is n, and the
\* Durable Store returns n for the thread's user unless a put for that user
\* has executed since.
C1_RoundTripLastCall ==
    \A t \in Threads :
        (/\ pc[t] = "DONE"
         /\ RememberResults(t) # {}
         /\ messages[t][Max(RememberResults(t))].status = "success")
        => LET p == Max(TurnPuts(t)) IN
              /\ puts[p].user_id = user_id[t]
              /\ user_name[t] = puts[p].name
              /\ Max(PutsFor(user_id[t])) = p
                    => get_user_name(users, user_id[t]) = puts[p].name

\* a turn is DONE after two successful remember-name calls with different
\* names, and user_name and the store hold the second
C1_Witness ==
    \E t \in Threads :
        /\ pc[t] = "DONE"
        /\ Cardinality(TurnPuts(t)) = 2
        /\ \E i \in TurnPuts(t) : puts[i].name # user_name[t]
        /\ messages[t][Max(RememberResults(t))].status = "success"
        /\ Max(PutsFor(user_id[t])) = Max(TurnPuts(t))
        /\ get_user_name(users, user_id[t]) = user_name[t]

\* C2: whenever ENRICH has completed, the tool call EXECUTE is about to run
\* carries user_id equal to the thread's Session State user_id, whatever the
\* oracle put under that key.
C2_EnrichmentCorrect ==
    \A t \in Threads :
        pc[t] = "EXECUTE" =>
            Last(messages[t]).tool_calls[1].args.user_id = user_id[t]

\* ENRICH has run on a call for which the oracle supplied another user's id
C2_Witness ==
    \E t \in Threads :
        /\ pc[t] = "EXECUTE"
        /\ response[t].tool_calls[1].args.user_id \in Users \ {user_id[t]}
        /\ Last(messages[t]).tool_calls[1].args.user_id = user_id[t]

\* C3 as stated: once the tool's durable write has failed in a turn, the
\* turn has failed with the error surfaced to the caller and the thread's
\* user_name is the one it had before the call (SYNC made no update).
C3_ToolFailureAbortsTurn ==
    \A t \in Threads :
        toolError[t].raised =>
            /\ pc[t] = "FAILED"
            /\ error[t] # None
            /\ user_name[t] = toolError[t].user_name

\* the current turn of t has received no oracle reply carrying a tool call
NoToolCallInTurn(t) ==
    \A i \in TurnRecords(t) : messages[t][i].tool_calls = <<>>

\* C4: a turn whose oracle reply carries no tool call visits REASON, ROUTE,
\* DONE and nothing else; at DONE messages has grown by exactly the
\* assistant reply, user_name is the one the turn started with and the turn
\* has made no durable write.
C4_PlainReplyTurn ==
    \A t \in Threads :
        (turnNo[t] > 0 /\ pc[t] # "INPUT" /\ NoToolCallInTurn(t)) =>
            /\ trace[t] \in {<<"REASON">>, <<"REASON", "ROUTE">>,
                             <<"REASON", "ROUTE", "DONE">>}
            /\ TurnPuts(t) = {}
            /\ user_name[t] = start[t].user_name
            /\ pc[t] = "DONE" =>
                  /\ Len(messages[t]) = start[t].len + 1
                  /\ Last(messages[t]).type = "ai"
                  /\ messages[t][start[t].len].type = "human"

\* a turn has gone REASON, ROUTE, DONE on a plain reply
C4_Witness ==
    \E t \in Threads :
        /\ pc[t] = "DONE"
        /\ NoToolCallInTurn(t)
        /\ trace[t] = <<"REASON", "ROUTE", "DONE">>
        /\ Last(messages[t]).content = <<"reply">>

\* C5: bootstrap of a never-seen thread identifier for user u yields a state
\* with user_id = u, exactly one human record, and user_name equal to what
\* the Durable Store holds for u at that moment, None when it holds nothing.
C5_BootstrapSeeds ==
    \A t \in Threads :
        (pc[t] = "INPUT" /\ turnNo[t] = 0) =>
            /\ input[t].user_id = bootVal[t].user_id
            /\ input[t].user_id \in Users
            /\ Len(input[t].messages) = 1
            /\ input[t].messages[1].type = "human"
            /\ bootVal[t].names = {} => input[t].user_name = None
            /\ bootVal[t].names # {} => input[t].user_name \in bootVal[t].names

\* a never-seen thread is bootstrapped for a user whose name another
\* thread has stored
C5_Witness ==
    \E t \in Threads :
        /\ pc[t] = "INPUT" /\ turnNo[t] = 0
        /\ input[t].user_name \in Names
        /\ Row(input[t].user_id, input[t].user_name) \in users

\* a never-seen thread is bootstrapped for a user with no record while the
\* store holds another user's name
C5_WitnessAbsent ==
    \E t \in Threads :
        /\ pc[t] = "INPUT" /\ turnNo[t] = 0
        /\ input[t].user_name = None
        /\ users # {}

\* the name the Durable Store held for the thread's user when the thread
\* was bootstrapped
BootName(t) ==
    IF bootVal[t].names = {} THEN None
    ELSE CHOOSE n \in bootVal[t].names : TRUE

Visited(t, node) == \E i \in 1..Len(trace[t]) : trace[t][i] = node

\* C6: of two distinct threads with the same user_id, a thread that has not
\* synchronized a tool call of its own holds the user_name the Durable Store
\* had at its own bootstrap, also after the other thread's remember-name
\* call has changed the Durable Store, which then returns that later name.
C6_ThreadIsolation ==
    \A t1, t2 \in Threads :
        (/\ t1 # t2
         /\ turnNo[t1] > 0 /\ turnNo[t2] > 0
         /\ pc[t1] # "INPUT"
         /\ user_id[t1] = user_id[t2]
         /\ ~Visited(t1, "SYNC"))
        => /\ user_name[t1] = BootName(t1)
           /\ \A i \in PutsFor(user_id[t1]) :
                 (i = Max(PutsFor(user_id[t1])) /\ puts[i].thread = t2)
                 => get_user_name(users, user_id[t1]) = puts[i].name

\* thread t1 was bootstrapped with no name, thread t2 of the same user then
\* stored one, and t1 is still in its turn believing there is none
C6_Witness ==
    \E t1, t2 \in Threads :
        /\ t1 # t2
        /\ user_id[t1] = user_id[t2]
        /\ InTurn(t1) /\ ~Visited(t1, "SYNC")
        /\ bootVal[t1].names = {}
        /\ user_name[t1] = None
        /\ PutsFor(user_id[t1]) # {}
        /\ puts[Max(PutsFor(user_id[t1]))].thread = t2
        /\ get_user_name(users, user_id[t1]) \in Names

\* C7 as stated: the user_id of a thread's Session State is the one written
\* when the thread identifier was first used.
C7_UserIdWriteOnce ==
    \A t \in Threads : turnNo[t] > 0 => user_id[t] = firstUser[t]

\* C8: for every user the Durable Store returns the name of the most
\* recently executed put for that user, nothing when none has executed, and
\* holds at most one record per user_id (so no record is ever removed).
C8_LastWriterWins ==
    \A u \in Users :
        /\ Cardinality(RowsOf(users, u)) <= 1
        /\ PutsFor(u) = {} => RowsOf(users, u) = {}
                              /\ get_user_name(users, u) = None
        /\ PutsFor(u) # {} =>
              /\ RowsOf(users, u) = {Row(u, puts[Max(PutsFor(u))].name)}
              /\ get_user_name(users, u) = puts[Max(PutsFor(u))].name

\* two threads have each stored a different name for the same user and the
\* store returns the later one
C8_Witness ==
    \E u \in Users : \E i, j \in PutsFor(u) :
        /\ i < j /\ j = Max(PutsFor(u))
        /\ puts[i].thread # puts[j].thread
        /\ puts[i].name # puts[j].name
        /\ get_user_name(users, u) = puts[j].name

\* C9 as stated: across every transition the previous messages sequence of
\* a thread is a prefix of the new one.
C9_MessagesAppendOnly ==
    [][\A t \in Threads : IsPrefix(messages[t], messages'[t])]_vars

\* C10 as stated: right after REASON, a thread whose user_name is present
\* was given the known-name directive built from it, and the unknown-name
\* directive was given only to a thread whose user_name is absent.
C10_DirectiveByPresence ==
    \A t \in Threads :
        pc[t] = "ROUTE" =>
            /\ user_name[t] # None => prompt[t] = KnownPrompt(user_name[t])
            /\ prompt[t] = UnknownPrompt => user_name[t] = None

\* C10 amended: right after REASON, a thread whose user_name is a non-empty
\* string was given the known-name directive containing it, a thread whose
\* user_name is absent or the empty string was given the unknown-name
\* directive, the two directives differ, and threads with the same
\* user_name were given identical text.
C10_DirectiveByTruthiness ==
    /\ \A t \in Threads :
          pc[t] = "ROUTE" =>
             /\ user_name[t] \notin {None, ""} =>
                   /\ prompt[t] = KnownPrompt(user_name[t])
                   /\ \E i \in 1..Len(prompt[t]) : prompt[t][i] = user_name[t]
                   /\ prompt[t] # UnknownPrompt
             /\ user_name[t] \in {None, ""} => prompt[t] = UnknownPrompt
    /\ \A t1, t2 \in Threads :
          (/\ pc[t1] = "ROUTE" /\ pc[t2] = "ROUTE"
           /\ user_name[t1] = user_name[t2])
          => prompt[t1] = prompt[t2]

\* two threads are right after REASON, one knowing a non-empty name and one
\* holding the empty string
C10_Witness ==
    \E t1, t2 \in Threads :
        /\ pc[t1] = "ROUTE" /\ pc[t2] = "ROUTE"
        /\ user_name[t1] = "John" /\ prompt[t1] = KnownPrompt("John")
        /\ user_name[t2] = "" /\ prompt[t2] = UnknownPrompt

\* the edges of the graph, in the spec's state names
Edges ==
    {<<"REASON", "ROUTE">>, <<"ROUTE", "ENRICH">>, <<"ROUTE", "DONE">>,
     <<"ENRICH", "EXECUTE">>, <<"EXECUTE", "SYNC">>, <<"EXECUTE", "FAILED">>,
     <<"SYNC", "REASON">>}

\* tr starts at the entry point and follows edges of the graph only
PathOK(tr) ==
    /\ tr[1] = "REASON"
    /\ \A i \in 1..(Len(tr) - 1) : <<tr[i], tr[i + 1]>> \in Edges

\* the last n nodes of tr
LastNodes(tr, n) == SubSeq(tr, Len(tr) - n + 1, Len(tr))

\* C11: a turn that services a tool call visits REASON, ROUTE, ENRICH,
\* EXECUTE, SYNC, REASON in that order; DONE is entered from ROUTE only;
\* and the reply a serviced turn returns at DONE comes from the REASON step
\* right after the last SYNC, whose directive is built from the user_name
\* SYNC left (the serviced call's name for a remember-name call).
C11_ReplyAfterSync ==
    \A t \in Threads :
        turnNo[t] > 0 =>
            /\ PathOK(trace[t])
            /\ Visited(t, "SYNC") =>
                  SubSeq(trace[t], 1, 5) =
                     <<"REASON", "ROUTE", "ENRICH", "EXECUTE", "SYNC">>
            /\ (pc[t] = "DONE" /\ Visited(t, "ENRICH")) =>
                  /\ LastNodes(trace[t], 4)
                        = <<"SYNC", "REASON", "ROUTE", "DONE">>
                  /\ prompt[t] = get_system_prompt(user_name[t])
                  /\ LET call == messages[t][Len(messages[t]) - 2].tool_calls[1]
                     IN  call.name = REMEMBER => user_name[t] = call.args.name

\* a turn that started without a name is DONE after servicing a
\* remember-name call, its reply built with the known-name directive
C11_Witness ==
    \E t \in Threads :
        /\ pc[t] = "DONE"
        /\ start[t].user_name = None
        /\ trace[t] = <<"REASON", "ROUTE", "ENRICH", "EXECUTE", "SYNC",
                        "REASON", "ROUTE", "DONE">>
        /\ user_name[t] = "John"
        /\ prompt[t] = KnownPrompt("John")

\* C12 as stated: ENRICH leaves the length of messages unchanged and puts
\* the enriched assistant record, with the same id, at the position of the
\* latest assistant record.
C12_EnrichReplaces ==
    [][\A t \in Threads :
          (pc[t] = "ENRICH" /\ pc'[t] = "EXECUTE") =>
              /\ Len(messages'[t]) = Len(messages[t])
              /\ Last(messages'[t]).id = Last(messages[t]).id
              /\ Last(messages'[t]).tool_calls[1].args.user_id = user_id[t]
      ]_vars

\* C13: whenever SYNC is about to run, the last record is the tool result
\* of the call EXECUTE just ran, the record before it is the enriched
\* assistant record of that call (same call id, the thread's user_id
\* injected, the tool and name the oracle asked for), a successful result
\* is that of the put of this name; and once SYNC has run on a
\* remember-name call, user_name is that call's name argument.
C13_SyncReadsTriggeringCall ==
    \A t \in Threads :
        LET m == messages[t]
            k == Len(messages[t])
        IN  /\ pc[t] = "SYNC" =>
                  /\ m[k].type = "tool"
                  /\ m[k - 1].type = "ai"
                  /\ m[k - 1].tool_calls # <<>>
                  /\ m[k - 1].tool_calls[1].id = m[k].tool_call_id
                  /\ m[k - 1].tool_calls[1].args.user_id = user_id[t]
                  /\ m[k - 1].tool_calls[1].name
                        = response[t].tool_calls[1].name
                  /\ m[k - 1].tool_calls[1].args.name
                        = response[t].tool_calls[1].args.name
                  /\ m[k].status = "success" =>
                        /\ TurnPuts(t) # {}
                        /\ puts[Max(TurnPuts(t))].name
                              = m[k - 1].tool_calls[1].args.name
                        /\ m[k].content
                              = Confirmation(m[k - 1].tool_calls[1].args.name)
            /\ (pc[t] = "REASON" /\ Visited(t, "SYNC")) =>
                  (m[k - 1].tool_calls[1].name = REMEMBER
                      => user_name[t] = m[k - 1].tool_calls[1].args.name)

\* SYNC has run on the second successful remember-name call of a turn and
\* user_name is the second name, not the first
C13_Witness ==
    \E t \in Threads :
        /\ pc[t] = "REASON"
        /\ Cardinality(TurnPuts(t)) = 2
        /\ LastNodes(trace[t], 2) = <<"SYNC", "REASON">>
        /\ user_name[t] = puts[Max(TurnPuts(t))].name
        /\ \E i \in TurnPuts(t) : puts[i].name # user_name[t]

\* the latest record of t is an oracle reply waiting to be routed
ReplyPending(t) == pc[t] = "ROUTE"

PlainReply(t) == ReplyPending(t) /\ Last(messages[t]).tool_calls = <<>>

ToolCallReply(t) == ReplyPending(t) /\ Last(messages[t]).tool_calls # <<>>

Visits(t, node) ==
    Cardinality({i \in 1..Len(trace[t]) : trace[t][i] = node})

\* indices of the tool results the current turn of t has received
ToolResults(t) == {i \in TurnRecords(t) : messages[t][i].type = "tool"}

\* C15 as stated: a turn passes through SYNC at most once and makes at most
\* one Durable Store write.
C15_AtMostOneDetour ==
    \A t \in Threads :
        /\ Visits(t, "SYNC") <= 1
        /\ Cardinality(TurnPuts(t)) <= 1

\* C15 amended: a turn passes through SYNC once per tool call the oracle
\* requested and the tool node serviced, however many those are, and makes
\* at most one Durable Store write per pass.
C15_OneWritePerDetour ==
    \A t \in Threads :
        (turnNo[t] > 0 /\ pc[t] # "INPUT") =>
            LET detours == Visits(t, "SYNC") IN
            /\ detours = Cardinality(ToolResults(t))
            /\ Cardinality(TurnPuts(t)) <= detours
            /\ pc[t] = "DONE" => Visits(t, "REASON") = detours + 1

\* a turn is DONE after two passes through SYNC and two durable writes
C15_Witness ==
    \E t \in Threads :
        /\ pc[t] = "DONE"
        /\ Visits(t, "SYNC") = 2
        /\ Cardinality(TurnPuts(t)) = 2
        /\ Visits(t, "REASON") = 3

\* C16: a step taken while thread t is in REASON, ROUTE, ENRICH or EXECUTE
\* leaves t's user_name and user_id as they were, whatever the oracle
\* returned; within a turn user_name changes only in the step out of SYNC,
\* and that step leaves user_id alone.
C16_NameWrittenOnlyBySync ==
    [][\A t \in Threads :
          /\ pc[t] \in {"REASON", "ROUTE", "ENRICH", "EXECUTE"}
             => /\ user_name'[t] = user_name[t]
                /\ user_id'[t] = user_id[t]
          /\ (pc[t] = "SYNC" /\ user_name'[t] # user_name[t])
             => /\ pc'[t] = AfterSync
                /\ user_id'[t] = user_id[t]]_vars

\* the tool node has stored a name under the thread's own user and the turn
\* is about to synchronize: Session State still holds the earlier user_name
C16_Witness ==
    \E t \in Threads :
        /\ pc[t] = "SYNC"
        /\ TurnPuts(t) # {}
        /\ puts[Max(TurnPuts(t))].user_id = user_id[t]
        /\ get_user_name(users, user_id[t]) = "John"
        /\ user_name[t] # "John"

\* C17: a step that changes a Durable Record, or commits a durable write,
\* is the step of one thread out of EXECUTE and commits exactly one write;
\* so bootstrap, the merge of the input, REASON, ROUTE, ENRICH and SYNC
\* leave the Durable Store as it was, and the step out of SYNC changes
\* nothing of the thread's state but user_name.
C17_StoreWrittenOnlyInExecute ==
    [][/\ (users' # users \/ puts' # puts)
          => /\ Len(puts') = Len(puts) + 1
             /\ SubSeq(puts', 1, Len(puts)) = puts
             /\ \E t \in Threads :
                   /\ pc[t] = "EXECUTE" /\ pc'[t] = AfterTools
                   /\ Last(puts').thread = t
                   /\ \A s \in Threads \ {t} : pc'[s] = pc[s]
       /\ \A t \in Threads :
             (pc[t] = "SYNC" /\ pc'[t] # pc[t])
             => /\ users' = users /\ puts' = puts
                /\ messages'[t] = messages[t]
                /\ user_id'[t] = user_id[t]]_vars

\* the first durable write of the run has been synchronized: the store has
\* the one record EXECUTE wrote, Session State has its name, and one write
\* has been committed
C17_Witness ==
    \E t \in Threads :
        /\ pc[t] = "REASON"
        /\ Visits(t, "SYNC") = 1
        /\ Len(puts) = 1
        /\ puts[1].thread = t
        /\ user_name[t] = "John"
        /\ users = {Row(user_id[t], "John")}

\* indices in puts of the durable writes made by threads running as user u
PutsBy(u) == {i \in 1..Len(puts) : puts[i].session_user = u}

\* C18: a step of a turn on a thread whose user_id is u leaves the Durable
\* Record of every user v # u as it was, whatever user_id the oracle put in
\* the tool call; and a bootstrap for a user none of whose own threads has
\* written yields user_name = None, whatever other users' threads stored.
C18_NoCrossUserWrites ==
    [][\A t \in Threads :
          /\ (InTurn(t) /\ pc'[t] # pc[t])
             => \A v \in (Users \cup {Missing}) \ {user_id[t]} :
                   RowsOf(users', v) = RowsOf(users, v)
          /\ (pc[t] # "INPUT" /\ pc'[t] = "INPUT")
             => (PutsBy(input'[t].user_id) = {}
                 => input'[t].user_name = None)]_vars

\* the oracle asked to store a name under another user's id; the write went
\* to the thread's own user, and a thread bootstrapped for that other user
\* meanwhile was given no name
C18_Witness ==
    \E t, s \in Threads :
        /\ pc[t] = "SYNC"
        /\ response[t].tool_calls # <<>>
        /\ response[t].tool_calls[1].name = REMEMBER
        /\ response[t].tool_calls[1].args.user_id \in Users \ {user_id[t]}
        /\ TurnPuts(t) # {}
        /\ RowsOf(users, user_id[t]) # {}
        /\ pc[s] = "INPUT"
        /\ input[s].user_id = response[t].tool_calls[1].args.user_id
        /\ input[s].user_name = None
        /\ RowsOf(users, input[s].user_id) = {}

\* indices in adk_log of the remember_name calls on user u's state before
\* call i
RemembersBefore(u, i) ==
    {j \in 1..(i - 1) :
        adk_log[j].op = "remember_name" /\ adk_log[j].user = u}

\* the dict the remember_name calls before call i leave for user u: the
\* one entry "user:name" holding the latest name, or no entry at all
Remembered(u, i) ==
    IF RemembersBefore(u, i) = {}
    THEN <<>>
    ELSE [k \in {USER_NAME_KEY} |-> adk_log[Max(RemembersBefore(u, i))].name]

\* C19: after any sequence of remember_name and get_name calls, each user's
\* state is what that user's remember_name calls made it (the entry
\* "user:name" holding the n of the latest one, and nothing else: no call
\* on another user's state and no get_name shows in it), and every
\* get_name returned the n of the most recent remember_name on that state
\* when that n is non-empty, otherwise "I don't know your name.".
C19_AdkTools ==
    /\ \A u \in Users : adk_state[u] = Remembered(u, Len(adk_log) + 1)
    /\ \A i \in 1..Len(adk_log) :
          adk_log[i].op = "get_name" =>
             LET u == adk_log[i].user
                 was == Remembered(u, i)
             IN  adk_log[i].result =
                    IF USER_NAME_KEY \in DOMAIN was /\ was[USER_NAME_KEY] # ""
                    THEN <<was[USER_NAME_KEY]>>
                    ELSE <<"I don't know your name.">>

\* a name was remembered, then the empty name, and get_name answered that
\* it does not know the name; the other user's state never got an entry
C19_Witness ==
    \E u \in Users :
        /\ Len(adk_log) = 3
        /\ adk_log[1] = [op |-> "remember_name", user |-> u,
                         name |-> "John",
                         result |-> RememberNameReturn("John")]
        /\ adk_log[2].op = "remember_name" /\ adk_log[2].user = u
        /\ adk_log[2].name = ""
        /\ adk_log[3].op = "get_name" /\ adk_log[3].user = u
        /\ adk_log[3].result = <<"I don't know your name.">>
        /\ adk_state[u][USER_NAME_KEY] = ""
        /\ \A v \in Users \ {u} : adk_state[v] = <<>>

====
